---- MODULE Spec2Model ----
(***************************************************************************)
(* A model of src/src/utils.js:                                            *)
(*                                                                         *)
(*   export function pointsForWord(word) {                                 *)
(*     let points = 0;                                                     *)
(*     for (const char of word) {                                          *)
(*       points += /[aeiou]/i.test(char) ? 1 : 2;                          *)
(*     }                                                                   *)
(*     return points;                                                      *)
(*   }                                                                     *)
(*                                                                         *)
(* A JavaScript string is a sequence of UTF-16 code units, modelled as a   *)
(* sequence of integers.  `for ... of` walks it by code point (a surrogate *)
(* pair is one character), and the regular expression, which has the `i`   *)
(* flag and no `u` flag, is matched code unit by code unit after           *)
(* ECMAScript's Canonicalize.                                              *)
(***************************************************************************)
EXTENDS Integers, Sequences, FiniteSets, TLC

VARIABLES word, pc, pos, points, result, iters, ncalls, returned

vars == <<word, pc, pos, points, result, iters, ncalls, returned>>

(***************************************************************************)
(* Bounds of the model.                                                    *)
(***************************************************************************)
\* longest word of the single-call specification
MaxLen == 4
\* number of invocations in flight in the concurrent specification
NumProcs == 2
\* longest word of the concurrent and of the repeated-call specification
SmallMaxLen == 2
\* number of successive calls in the repeated-call specification
MaxCalls == 3

Procs == 1..NumProcs

(***************************************************************************)
(* Code units the inputs are drawn from:                                   *)
(*   a e s t   lower-case ASCII letters        E T   upper-case ASCII      *)
(*   1         a digit                                                     *)
(*   223  U+00DF sharp s            (upper-cases to "SS")                  *)
(*   305  U+0131 dotless i          (upper-cases to "I")                   *)
(*   55357, 56832  the surrogate pair of U+1F600, each also usable alone   *)
(***************************************************************************)
Units == {97, 101, 115, 116, 69, 84, 49, 223, 305, 55357, 56832}

\* e and t: the inputs of the concurrent and of the repeated-call specification
SmallUnits == {101, 116}

\* e, t, sharp s and the surrogate pair: the inputs of the fair specification
FairUnits == {101, 116, 223, 55357, 56832}

\* All sequences over S of at most n elements.
SeqsUpTo(S, n) == UNION {[1..k -> S] : k \in 0..n}

Words == SeqsUpTo(Units, MaxLen)

SmallWords == SeqsUpTo(SmallUnits, SmallMaxLen)

FairWords == SeqsUpTo(FairUnits, MaxLen)

(***************************************************************************)
(* The string iterator behind `for (const char of word)`: CodePointAt.     *)
(***************************************************************************)
IsHighSurrogate(cu) == cu \in 55296..56319

IsLowSurrogate(cu) == cu \in 56320..57343

\* The mutant: the loop walks code units (for (i = 0; i < word.length; i++)).
CharLenCodeUnit(w, i) == 1

\* Number of code units of the character that starts at index i of w.
CharLen(w, i) ==
  IF IsHighSurrogate(w[i]) /\ i + 1 <= Len(w) /\ IsLowSurrogate(w[i + 1])
  THEN 2 ELSE 1

(***************************************************************************)
(* /[aeiou]/i.test(char)                                                   *)
(***************************************************************************)
\* String.prototype.toUpperCase of one code point, on the code points the
\* model meets (the identity elsewhere).
UpperOf(cp) ==
  IF cp \in 97..122 THEN <<cp - 32>>
  ELSE IF cp = 223 THEN <<83, 83>>
  ELSE IF cp = 305 THEN <<73>>
  ELSE <<cp>>

\* The mutant: Canonicalize without its rule that a non-ASCII code unit never
\* folds to an ASCII one.
CanonicalizeNoAsciiRule(cu) ==
  LET s == UpperOf(cu) IN IF Len(s) # 1 THEN cu ELSE s[1]

\* ECMAScript Canonicalize(ch), ignoreCase true, unicode false.
Canonicalize(cu) ==
  LET s == UpperOf(cu)
  IN  IF Len(s) # 1 THEN cu
      ELSE IF cu >= 128 /\ s[1] < 128 THEN cu
      ELSE s[1]

\* The character class [aeiou].
ClassAEIOU == {97, 101, 105, 111, 117}

\* The mutant: the README's first version, /[aeiou]/ without the i flag.
RegExpTestCaseSensitive(char) ==
  \E k \in 1..Len(char) : char[k] \in ClassAEIOU

\* /[aeiou]/i.test(char): some code unit of char matches the class.
RegExpTest(char) ==
  \E k \in 1..Len(char) :
     Canonicalize(char[k]) \in {Canonicalize(c) : c \in ClassAEIOU}

\* The mutant: the two branches exchanged, ... ? 2 : 1.
PointsForSwapped(char) == IF RegExpTest(char) THEN 2 ELSE 1

\* ... ? 1 : 2
PointsFor(char) == IF RegExpTest(char) THEN 1 ELSE 2

\* The mutant: `points = ...` in place of `points += ...`.
AccumulateAssign(p, d) == d

\* points += d
Accumulate(p, d) == p + d

\* The mutant: let points = 1.
InitialPointsOne == 0 + 1

\* let points = 0
InitialPoints == 0

(***************************************************************************)
(* pointsForWord as a function of its argument: the loop run to its end.   *)
(***************************************************************************)
RECURSIVE Loop(_, _, _)
Loop(w, i, p) ==
  IF i > Len(w) THEN p
  ELSE LET n == CharLen(w, i)
       IN  Loop(w, i + n, Accumulate(p, PointsFor(SubSeq(w, i, i + n - 1))))

pointsForWord(w) == Loop(w, 1, InitialPoints)

(***************************************************************************)
(* One invocation as a process.  `points` is declared inside the function, *)
(* so every invocation has a binding of its own.                           *)
(***************************************************************************)
\* The mutant: `points` declared at module level, one binding for all calls.
FrameShared(p) == 1

\* The binding of `points` invocation p reads and writes.
Frame(p) == p

Init ==
  /\ word = [p \in Procs |-> <<>>]
  /\ pc = [p \in Procs |-> "idle"]
  /\ pos = [p \in Procs |-> 1]
  /\ points = [p \in Procs |-> 0]
  /\ result = [p \in Procs |-> 0]
  /\ iters = [p \in Procs |-> 0]
  /\ ncalls = [p \in Procs |-> 0]
  /\ returned = {}

\* The mutant: a call that does not initialise the accumulator.
CallKeepPoints(p, w) ==
  /\ pc[p] # "loop"
  /\ word' = [word EXCEPT ![p] = w]
  /\ pos' = [pos EXCEPT ![p] = 1]
  /\ iters' = [iters EXCEPT ![p] = 0]
  /\ ncalls' = [ncalls EXCEPT ![p] = @ + 1]
  /\ pc' = [pc EXCEPT ![p] = "loop"]
  /\ UNCHANGED <<points, result, returned>>

\* pointsForWord(w) is entered: the argument is bound, points is 0 and the
\* iterator stands before the first character.
Call(p, w) ==
  /\ pc[p] # "loop"
  /\ word' = [word EXCEPT ![p] = w]
  /\ points' = [points EXCEPT ![Frame(p)] = InitialPoints]
  /\ pos' = [pos EXCEPT ![p] = 1]
  /\ iters' = [iters EXCEPT ![p] = 0]
  /\ ncalls' = [ncalls EXCEPT ![p] = @ + 1]
  /\ pc' = [pc EXCEPT ![p] = "loop"]
  /\ UNCHANGED <<result, returned>>

\* One pass of the loop body, on the character the iterator yields.
Iterate(p) ==
  /\ pc[p] = "loop"
  /\ pos[p] <= Len(word[p])
  /\ LET n == CharLen(word[p], pos[p])
         char == SubSeq(word[p], pos[p], pos[p] + n - 1)
     IN  /\ points' = [points EXCEPT
                         ![Frame(p)] = Accumulate(@, PointsFor(char))]
         /\ pos' = [pos EXCEPT ![p] = @ + n]
  /\ iters' = [iters EXCEPT ![p] = @ + 1]
  /\ UNCHANGED <<word, pc, result, ncalls, returned>>

\* The iterator is exhausted: return points.
Return(p) ==
  /\ pc[p] = "loop"
  /\ pos[p] > Len(word[p])
  /\ result' = [result EXCEPT ![p] = points[Frame(p)]]
  /\ returned' = returned \cup {<<word[p], points[Frame(p)]>>}
  /\ pc' = [pc EXCEPT ![p] = "done"]
  /\ UNCHANGED <<word, pos, points, iters, ncalls>>

(***************************************************************************)
(* Spec: one call, on any word over Units of at most MaxLen code units.    *)
(***************************************************************************)
Next ==
  \/ ncalls[1] = 0 /\ \E w \in Words : Call(1, w)
  \/ Iterate(1)
  \/ Return(1)

Spec == Init /\ [][Next]_vars

(***************************************************************************)
(* FairSpec: one call on a word over FairUnits.  The function is           *)
(* synchronous code: once entered, the loop and the return are not held    *)
(* back by anything, which is weak fairness of both.                       *)
(***************************************************************************)
NextFair ==
  \/ ncalls[1] = 0 /\ \E w \in FairWords : Call(1, w)
  \/ Iterate(1)
  \/ Return(1)

FairSpec ==
  Init /\ [][NextFair]_vars /\ WF_vars(Iterate(1)) /\ WF_vars(Return(1))

(***************************************************************************)
(* SpecConc: NumProcs invocations, one call each, their loop iterations    *)
(* interleaved in every order.                                             *)
(***************************************************************************)
NextConc ==
  \/ \E p \in Procs : ncalls[p] = 0 /\ \E w \in SmallWords : Call(p, w)
  \/ \E p \in Procs : Iterate(p)
  \/ \E p \in Procs : Return(p)

SpecConc == Init /\ [][NextConc]_vars

(***************************************************************************)
(* SpecSeq: one caller making up to MaxCalls calls, one after another.     *)
(***************************************************************************)
NextSeq ==
  \/ ncalls[1] < MaxCalls /\ \E w \in SmallWords : Call(1, w)
  \/ Iterate(1)
  \/ Return(1)

SpecSeq == Init /\ [][NextSeq]_vars

(***************************************************************************)
(* Vocabulary of the properties.  None of this is the program: it is what  *)
(* the statements about it mean by "character", "length", "lower-cased"    *)
(* and "upper-cased" (String.prototype.toLowerCase / toUpperCase on the    *)
(* code points the model meets).                                           *)
(***************************************************************************)
\* The characters (code points) of a string, each as its code units.
RECURSIVE Characters(_)
Characters(w) ==
  IF w = <<>> THEN <<>>
  ELSE IF Len(w) >= 2 /\ w[1] \in 55296..56319 /\ w[2] \in 56320..57343
       THEN <<SubSeq(w, 1, 2)>> \o Characters(SubSeq(w, 3, Len(w)))
       ELSE <<SubSeq(w, 1, 1)>> \o Characters(Tail(w))

\* length(w): the number of characters of w.
NumChars(w) == Len(Characters(w))

LowerOf(cp) ==
  IF cp \in 65..90 THEN <<cp + 32>>
  ELSE IF cp = 304 THEN <<105, 775>>
  ELSE <<cp>>

RECURSIVE Concat(_)
Concat(ss) == IF ss = <<>> THEN <<>> ELSE Head(ss) \o Concat(Tail(ss))

LowerChar(c) == IF Len(c) = 1 THEN LowerOf(c[1]) ELSE c

UpperChar(c) == IF Len(c) = 1 THEN UpperOf(c[1]) ELSE c

toLowerCase(w) ==
  LET cs == Characters(w) IN Concat([k \in 1..Len(cs) |-> LowerChar(cs[k])])

toUpperCase(w) ==
  LET cs == Characters(w) IN Concat([k \in 1..Len(cs) |-> UpperChar(cs[k])])

\* a, e, i, o, u as one-character strings
LowerVowels == {<<97>>, <<101>>, <<105>>, <<111>>, <<117>>}

\* a, e, i, o, u in either case
VowelLetters == {97, 101, 105, 111, 117, 65, 69, 73, 79, 85}

IsVowelChar(c) == Len(c) = 1 /\ c[1] \in VowelLetters

RECURSIVE SumOver(_, _)
SumOver(cs, k) ==
  IF k = 0 THEN 0
  ELSE SumOver(cs, k - 1) + (IF toLowerCase(cs[k]) \in LowerVowels THEN 1 ELSE 2)

\* 1 for each character that lower-cased is a, e, i, o or u, 2 for any other
ScoreByDefinition(w) == LET cs == Characters(w) IN SumOver(cs, Len(cs))

Test == <<116, 101, 115, 116>>

TEsT == <<116, 69, 115, 84>>

(***************************************************************************)
(* C1                                                                      *)
(***************************************************************************)
\* C1: the value returned for a word is the sum over its characters of 1 if
\* the character lower-cased is one of a, e, i, o, u and of 2 otherwise; the
\* value returned for "test" is 7.
C1_ScoreIsSum ==
  pc[1] = "done" =>
     /\ result[1] = ScoreByDefinition(word[1])
     /\ word[1] = Test => result[1] = 7

C1_Witness == pc[1] = "done" /\ word[1] = Test /\ result[1] = 7

(***************************************************************************)
(* C2                                                                      *)
(***************************************************************************)
\* C2 as stated: for every word, the value returned equals the value of the
\* function on the lower-cased word and on the upper-cased word.
C2_CaseInvarianceAllWords ==
  pc[1] = "done" =>
     /\ result[1] = pointsForWord(toLowerCase(word[1]))
     /\ result[1] = pointsForWord(toUpperCase(word[1]))

\* A character whose upper-case and lower-case forms are each one character,
\* and a vowel letter exactly when the character is one.
CaseStable(c) ==
  /\ NumChars(UpperChar(c)) = 1
  /\ NumChars(LowerChar(c)) = 1
  /\ IsVowelChar(UpperChar(c)) <=> IsVowelChar(c)
  /\ IsVowelChar(LowerChar(c)) <=> IsVowelChar(c)

AllCaseStable(w) ==
  LET cs == Characters(w) IN \A k \in 1..Len(cs) : CaseStable(cs[k])

\* C2, amended: case invariance for every word made of characters whose
\* upper-case and lower-case forms are each a single character that is a vowel
\* letter exactly when the character is (every ASCII character is one); the
\* value returned for "tEsT" is 7, as for "test".
C2_CaseInvarianceStableWords ==
  pc[1] = "done" =>
     /\ AllCaseStable(word[1]) =>
          /\ result[1] = pointsForWord(toLowerCase(word[1]))
          /\ result[1] = pointsForWord(toUpperCase(word[1]))
     /\ word[1] = TEsT => result[1] = 7 /\ result[1] = pointsForWord(Test)

C2_Witness ==
  /\ pc[1] = "done" /\ word[1] = TEsT /\ result[1] = 7
  /\ AllCaseStable(word[1])
  /\ toLowerCase(word[1]) = Test
  /\ toLowerCase(word[1]) # toUpperCase(word[1])

(***************************************************************************)
(* C3                                                                      *)
(***************************************************************************)
\* C3: the value returned lies between 0 and twice the number of characters
\* of the word, and equals twice that number exactly when the word holds no
\* vowel letter of either case.
C3_UpperBound ==
  pc[1] = "done" =>
     /\ 0 <= result[1]
     /\ result[1] <= 2 * NumChars(word[1])
     /\ result[1] = 2 * NumChars(word[1])
          <=> \A k \in 1..Len(word[1]) : word[1][k] \notin VowelLetters

C3_Witness ==
  /\ pc[1] = "done"
  /\ word[1] = <<116, 55357, 56832, 49>>
  /\ result[1] = 6

(***************************************************************************)
(* C4                                                                      *)
(***************************************************************************)
\* C4 as stated: however a word is cut in two, the value returned for the
\* whole is the sum of the values of the function on the two parts.
C4_AdditiveAllSplits ==
  pc[1] = "done" =>
     \A k \in 0..Len(word[1]) :
        result[1] = pointsForWord(SubSeq(word[1], 1, k))
                    + pointsForWord(SubSeq(word[1], k + 1, Len(word[1])))

\* The cut falls between a high surrogate and the low surrogate after it.
SplitsPair(w, k) ==
  /\ 1 <= k /\ k < Len(w)
  /\ w[k] \in 55296..56319
  /\ w[k + 1] \in 56320..57343

\* C4, amended: additivity for every two strings of which the first does not
\* end in a high surrogate while the second starts with a low surrogate.
C4_AdditiveCharacterSplits ==
  pc[1] = "done" =>
     \A k \in 0..Len(word[1]) :
        ~SplitsPair(word[1], k) =>
           result[1] = pointsForWord(SubSeq(word[1], 1, k))
                       + pointsForWord(SubSeq(word[1], k + 1, Len(word[1])))

C4_Witness ==
  /\ pc[1] = "done"
  /\ word[1] = <<116, 101, 55357, 56832>>
  /\ result[1] = 5
  /\ pointsForWord(<<116, 101>>) = 3
  /\ pointsForWord(<<55357, 56832>>) = 2

(***************************************************************************)
(* C5                                                                      *)
(***************************************************************************)
\* C5: a pass of the loop over a character that is not one of the ten vowel
\* letters adds exactly 2 to points, whatever the character is; the value
\* returned for "a1" is 3.
C5_NonVowelAddsTwo ==
  /\ [][ (pc[1] = "loop" /\ iters'[1] = iters[1] + 1
            /\ ~IsVowelChar(SubSeq(word[1], pos[1], pos'[1] - 1)))
         => points'[1] = points[1] + 2 ]_vars
  /\ [](pc[1] = "done" /\ word[1] = <<97, 49>> => result[1] = 3)

C5_Witness == pc[1] = "done" /\ word[1] = <<97, 49>> /\ result[1] = 3

(***************************************************************************)
(* C6                                                                      *)
(***************************************************************************)
\* C6: on the empty word the loop body is never entered and the value
\* returned is 0, the initial value of points.
C6_EmptyWord ==
  pc[1] = "done" /\ word[1] = <<>> => result[1] = 0 /\ iters[1] = 0

C6_Witness == pc[1] = "done" /\ word[1] = <<>> /\ result[1] = 0

(***************************************************************************)
(* C7                                                                      *)
(***************************************************************************)
\* C7: a call that has started returns, and when it has returned the loop
\* body has run exactly once per character of the word and the value
\* returned is a natural number.
C7_Terminates ==
  /\ (pc[1] = "loop") ~> (pc[1] = "done")
  /\ [](pc[1] = "done" =>
          iters[1] = NumChars(word[1]) /\ result[1] \in Nat)

C7_Witness ==
  /\ pc[1] = "done"
  /\ word[1] = <<55357, 56832, 101, 223>>
  /\ iters[1] = 3

(***************************************************************************)
(* C8                                                                      *)
(***************************************************************************)
\* C8: with the loop iterations of several invocations interleaved, each
\* invocation's accumulator is at every moment the score of the part of its
\* own word it has read, and each returns the value the function has on its
\* own word.
C8_NoInterference ==
  \A p \in Procs :
     /\ pc[p] = "loop" =>
          points[Frame(p)] = pointsForWord(SubSeq(word[p], 1, pos[p] - 1))
     /\ pc[p] = "done" => result[p] = pointsForWord(word[p])

C8_Witness ==
  /\ pc[1] = "loop" /\ pc[2] = "loop"
  /\ iters[1] = 1 /\ Len(word[1]) = 2
  /\ iters[2] = 1 /\ Len(word[2]) = 2
  /\ points[Frame(1)] # points[Frame(2)]

(***************************************************************************)
(* C9                                                                      *)
(***************************************************************************)
\* C9: a call never changes its argument nor anything of another invocation,
\* and whatever calls came before, calls on the same word return the same
\* value.
C9_Pure ==
  /\ [](\A a \in returned : \A b \in returned : a[1] = b[1] => a[2] = b[2])
  /\ [][pc[1] = "loop" => word'[1] = word[1]]_vars
  /\ [][\A q \in Procs \ {1} :
          /\ word'[q] = word[q] /\ points'[q] = points[q]
          /\ result'[q] = result[q] /\ pc'[q] = pc[q]]_vars

C9_Witness ==
  /\ pc[1] = "done" /\ ncalls[1] = 3
  /\ Cardinality(returned) = 2
  /\ result[1] = 3

(***************************************************************************)
(* C10                                                                     *)
(***************************************************************************)
\* C10: after k passes of the loop points is the score of the k characters
\* read and lies between k and 2k; each pass adds 1 or 2; the value returned
\* is at least the number of characters, equal to it exactly when every
\* character is a vowel letter, and 0 only for the empty word.
C10_LoopInvariant ==
  /\ [](pc[1] = "loop" =>
          /\ iters[1] = NumChars(SubSeq(word[1], 1, pos[1] - 1))
          /\ points[1] = pointsForWord(SubSeq(word[1], 1, pos[1] - 1))
          /\ iters[1] <= points[1] /\ points[1] <= 2 * iters[1])
  /\ [][iters'[1] = iters[1] + 1 => points'[1] - points[1] \in {1, 2}]_vars
  /\ [](pc[1] = "done" =>
          /\ NumChars(word[1]) <= result[1]
          /\ result[1] = NumChars(word[1])
               <=> \A k \in 1..Len(word[1]) : word[1][k] \in VowelLetters
          /\ result[1] = 0 <=> word[1] = <<>>)

C10_Witness ==
  /\ pc[1] = "loop" /\ iters[1] = 3 /\ points[1] = 4
  /\ word[1] = <<55357, 56832, 101, 69>>

====
